---- MODULE Spec2Model ----
(***************************************************************************)
(* Model of wt-function/todoist.js: the item filter (formatProjectItems)   *)
(* and the archive aggregation (Todoist.getProjectArchivedTasks with the   *)
(* pagination loop of Todoist._getArchivedProjectItems).                   *)
(*                                                                         *)
(* Encoding of JavaScript values:                                          *)
(*   - ids are positive integers; JavaScript null is Null (0);             *)
(*   - a string is a sequence of one-character strings; the character      *)
(*     U+2716 is written "X";                                              *)
(*   - an optional argument is a sequence of length 0 (absent) or 1;       *)
(*   - an object used as a map is a function whose DOMAIN is its keys.     *)
(***************************************************************************)
EXTENDS Integers, Sequences, FiniteSets, TLC

VARIABLES
    items,                \* formatProjectItems: the `items` argument
    sectionsArg,          \* the optional `sectionsNameById` argument
    pos,                  \* index of the next item the for-of loop visits
    selectedTasks,        \* formatProjectItems: selectedTasks
    categoryIds,          \* formatProjectItems: categoryIds
    lastSkippedParentId,  \* formatProjectItems: lastSkippedParentId
    parentIdsArg,         \* getProjectArchivedTasks: the optional `parentIds` argument
    queries,              \* the calls of _getArchivedProjectItems, in the order of whenAllKindTasks
    whenAll,              \* the promise getProjectArchivedTasks returns
    called,               \* the argument of a function called on its own
    returned              \* what that function returned: <<>> before the call

filterVars == <<items, pos, selectedTasks, categoryIds, lastSkippedParentId>>

archiveVars == <<parentIdsArg, queries, whenAll>>

callVars == <<called, returned>>

vars == <<items, sectionsArg, pos, selectedTasks, categoryIds, lastSkippedParentId,
          parentIdsArg, queries, whenAll, called, returned>>

----------------------------------------------------------------------------
(* Bounds *)

MaxLen == 3

\* responses, over one call of getProjectArchivedTasks, after which a query fetches again
MaxMore == 2

\* characters of a content string
MaxContent == 4

----------------------------------------------------------------------------
(* Constants of todoist.js *)

Null == 0

NIL == -1

ROOT_SECTION == ":root"

HEAVY_X == "X"

EndsWith(s, suffix) ==
    /\ Len(s) >= Len(suffix)
    /\ SubSeq(s, Len(s) - Len(suffix) + 1, Len(s)) = suffix

\* /✖:?$/
RE_IGNORE_ITEM(content) ==
    \/ EndsWith(content, <<HEAVY_X>>)
    \/ EndsWith(content, <<HEAVY_X, ":">>)

\* /:$/
RE_CATEGORY_ITEM(content) == EndsWith(content, <<":">>)

----------------------------------------------------------------------------
(* Strings: a string is the sequence of its characters, U+2716 written X;  *)
(* the words "playlist", "YouTube" and "youtube" are written as one        *)
(* character each. The capital letter X is not used.                       *)

IsSpace(c) == c = " "

\* the lower-case letters, x last, and the upper-case letters in the same order
LowerCase ==
    << "a", "b", "c", "d", "e", "f", "g", "h", "i", "j", "k", "l", "m",
       "n", "o", "p", "q", "r", "s", "t", "u", "v", "w", "y", "z", "x" >>

UpperCase ==
    << "A", "B", "C", "D", "E", "F", "G", "H", "I", "J", "K", "L", "M",
       "N", "O", "P", "Q", "R", "S", "T", "U", "V", "W", "Y", "Z" >>

IsDigit(c) == c \in {"0", "1", "2", "3", "4", "5", "6", "7", "8", "9"}

\* \w
IsWord(c) ==
    \/ \E k \in DOMAIN LowerCase : c = LowerCase[k]
    \/ \E k \in DOMAIN UpperCase : c = UpperCase[k]
    \/ IsDigit(c)
    \/ c \in {"_", "playlist", "YouTube", "youtube"}

\* String.prototype.toLowerCase
ToLowerCase(str) ==
    [ k \in 1 .. Len(str) |->
        IF str[k] = "YouTube" THEN "youtube"
        ELSE IF \E u \in DOMAIN UpperCase : str[k] = UpperCase[u]
        THEN LowerCase[CHOOSE u \in DOMAIN UpperCase : str[k] = UpperCase[u]]
        ELSE str[k] ]

\* the index of the last character of the longest run, from index `from`, of
\* spaces (from - 1 when there is none)
RECURSIVE SpacesEnd(_, _)
SpacesEnd(str, from) ==
    IF from <= Len(str) /\ IsSpace(str[from]) THEN SpacesEnd(str, from + 1) ELSE from - 1

\* [^\(\s]
NotParenNorSpace(c) == c # "(" /\ ~IsSpace(c)

\* the same for the longest run of characters that are no parenthesis and no space
RECURSIVE LabelEnd(_, _)
LabelEnd(str, from) ==
    IF from <= Len(str) /\ NotParenNorSpace(str[from]) THEN LabelEnd(str, from + 1)
    ELSE from - 1

\* the index of the first character of the longest run, ending at index `to`,
\* of spaces (to + 1 when there is none)
RECURSIVE SpacesStart(_, _)
SpacesStart(str, to) ==
    IF to >= 1 /\ IsSpace(str[to]) THEN SpacesStart(str, to - 1) ELSE to + 1

----------------------------------------------------------------------------
(* formatDate *)

\* /^(\d{4})-(\d{2})-(\d{2})/
DateMatches(dateStr) ==
    /\ Len(dateStr) >= 10
    /\ \A k \in {1, 2, 3, 4, 6, 7, 9, 10} : IsDigit(dateStr[k])
    /\ dateStr[5] = "-" /\ dateStr[8] = "-"

\* the capture groups of the match, in the order of the pattern
DateGroups(dateStr) ==
    << SubSeq(dateStr, 1, 4), SubSeq(dateStr, 6, 7), SubSeq(dateStr, 9, 10) >>

\* const [, day, month, year] = dateStr.match(...)
DateNames(groups) == [day |-> groups[1], month |-> groups[2], year |-> groups[3]]

\* `${month} ${day}, ${year}`; a string that does not match makes the
\* destructuring throw, written <<"TypeError">>
formatDate(dateStr) ==
    IF ~DateMatches(dateStr) THEN <<"TypeError">>
    ELSE LET n == DateNames(DateGroups(dateStr))
         IN  n.month \o <<" ">> \o n.day \o <<",", " ">> \o n.year

----------------------------------------------------------------------------
(* formatContent *)

\* the lowest index from `from` on where str holds character c (0 when none)
RECURSIVE IndexOf(_, _, _)
IndexOf(str, c, from) ==
    IF from > Len(str) THEN 0
    ELSE IF str[from] = c THEN from
    ELSE IndexOf(str, c, from + 1)

\* RE_TAG = /^\{([^}]+)\}\s+(.+)/ : <<>> or <<tag, rest>>
MatchTag(str) ==
    IF Len(str) = 0 \/ str[1] # "{" THEN <<>>
    ELSE LET close  == IndexOf(str, "}", 2)
             spaces == SpacesEnd(str, close + 1)
         IN  IF close < 3 \/ spaces < close + 1 THEN <<>>
             ELSE IF spaces < Len(str)
             THEN << SubSeq(str, 2, close - 1), SubSeq(str, spaces + 1, Len(str)) >>
             ELSE IF spaces >= close + 2
             THEN << SubSeq(str, 2, close - 1), << str[spaces] >> >>
             ELSE <<>>

\* a test for the letters of "playlist" anywhere (used to test claim C15)
PlaylistAnywhere(str) == \E k \in 1 .. Len(str) : str[k] = "playlist"

\* RE_PLAYLIST_CONTENT = /\bplaylist\b/
RE_PLAYLIST_CONTENT(str) ==
    \E k \in 1 .. Len(str) :
        /\ str[k] = "playlist"
        /\ k = 1 \/ ~IsWord(str[k - 1])
        /\ k = Len(str) \/ ~IsWord(str[k + 1])

\* (?:\s*\((.+)\))\B from index `from`: the index of the closing parenthesis
\* the greedy (.+) stops at (0 when the tail does not match)
ParenthesizedEnd(str, from) ==
    LET open == SpacesEnd(str, from) + 1
        ends == { p \in (open + 2) .. Len(str) :
                    /\ str[p] = ")"
                    /\ p = Len(str) \/ ~IsWord(str[p + 1]) }
    IN  IF open > Len(str) \/ str[open] # "(" \/ ends = {} THEN 0
        ELSE CHOOSE p \in ends : \A other \in ends : other <= p

Parenthesized(str, from) ==
    SubSeq(str, SpacesEnd(str, from) + 2, ParenthesizedEnd(str, from) - 1)

\* RE_HYPERTEXT_1 = /^([^\(\s]+)\s+(?:\s*\((.+)\))\B/ : <<>> or <<group 1, group 2>>
MatchHypertext1(str) ==
    LET first == LabelEnd(str, 1)
    IN  IF first < 1 \/ first >= Len(str) \/ ~IsSpace(str[first + 1]) THEN <<>>
        ELSE IF ParenthesizedEnd(str, first + 1) = 0 THEN <<>>
        ELSE << SubSeq(str, 1, first), Parenthesized(str, first + 1) >>

\* RE_HYPERTEXT_2 = /^\[([^\(\s]+)\](?:\s*\((.+)\))\B/ : <<>> or <<group 1, group 2>>
MatchHypertext2(str) ==
    IF Len(str) = 0 \/ str[1] # "[" THEN <<>>
    ELSE LET last == LabelEnd(str, 2)
         IN  IF last < 3 \/ str[last] # "]" THEN <<>>
             ELSE IF ParenthesizedEnd(str, last + 1) = 0 THEN <<>>
             ELSE << SubSeq(str, 2, last - 1), Parenthesized(str, last + 1) >>

\* RE_YT_PLAYLIST = /\s*-\s*YouTube$/ : the index the match starts at (0 when none)
YouTubeSuffixStart(str) ==
    IF Len(str) < 2 \/ str[Len(str)] # "YouTube" THEN 0
    ELSE LET dash == SpacesStart(str, Len(str) - 1) - 1
         IN  IF dash < 1 \/ str[dash] # "-" THEN 0
             ELSE SpacesStart(str, dash - 1)

\* str.replace(RE_YT_PLAYLIST, '')
removeYouTubeKeyword(str) ==
    IF YouTubeSuffixStart(str) = 0 THEN str
    ELSE SubSeq(str, 1, YouTubeSuffixStart(str) - 1)

\* the tag line 76..83 leave: <<tag, content>>
AfterTag(content) ==
    IF MatchTag(content) # <<>> THEN MatchTag(content)
    ELSE IF RE_PLAYLIST_CONTENT(content) THEN << <<"playlist">>, content >>
    ELSE << <<>>, content >>

\* [, parsedContent.link, content] = matchesHypertext1
Hypertext1(groups) == [link |-> groups[1], content |-> groups[2]]

\* [, content, parsedContent.link] = matchesHypertext2
Hypertext2(groups) == [content |-> groups[1], link |-> groups[2]]

\* the link and content lines 86..94 leave
AfterHypertext(content) ==
    IF MatchHypertext1(content) # <<>> THEN Hypertext1(MatchHypertext1(content))
    ELSE IF MatchHypertext2(content) # <<>> THEN Hypertext2(MatchHypertext2(content))
    ELSE [link |-> <<>>, content |-> content]

\* the value formatContent(content) returns; onlyTruthyValuesOnPojo leaves out
\* a property that is undefined or the empty string, written <<>>
formatContent(content) ==
    LET tagged == AfterTag(content)
        linked == AfterHypertext(tagged[2])
    IN  [ text |-> removeYouTubeKeyword(linked.content),
          tag  |-> ToLowerCase(tagged[1]),
          link |-> linked.link ]

----------------------------------------------------------------------------
(* formatProjectItems *)

SECTION_A == 7

\* a default that knows every section (used to test claim C4)
DefaultKnowsSectionA == (Null :> ROOT_SECTION) @@ (SECTION_A :> "A")

\* the default value of the parameter sectionsNameById
DefaultSectionsNameById == (Null :> ROOT_SECTION)

SectionsNameById(arg) ==
    IF Len(arg) = 0 THEN DefaultSectionsNameById ELSE arg[1]

\* a membership check that lets every section through (used to test claim C3)
SectionAlwaysKnown(sectionId, sectionsNameById) == TRUE

\* sectionId in sectionsNameById
SectionKnown(sectionId, sectionsNameById) == sectionId \in DOMAIN sectionsNameById

\* a Task that carries a fixed priority (used to test claim C20)
formatItemDefaultPriority(item) ==
    [ checked   |-> item.checked # 0,
      dateAdded |-> formatDate(item.date_added),
      id        |-> item.id,
      parentId  |-> item.parent_id,
      sectionId |-> item.section_id,
      priority  |-> 1,
      content   |-> formatContent(item.content) ]

\* the Task of a retained item
formatItem(item) ==
    [ checked   |-> item.checked # 0,
      dateAdded |-> formatDate(item.date_added),
      id        |-> item.id,
      parentId  |-> item.parent_id,
      sectionId |-> item.section_id,
      priority  |-> item.priority,
      content   |-> formatContent(item.content) ]

\* a comparison with the initial skip id instead of the current one (used to test claim C2)
ParentSkippedAgainstNil(currParentId, lastSkipped) == currParentId = NIL

\* currParentId == lastSkippedParentId
ParentSkipped(currParentId, lastSkipped) == currParentId = lastSkipped

\* a skip test that forgets the category markers (used to test claim C5)
SkipItemParentOnly(parentSkipped, isCategory) == parentSkipped

\* parentSkipped || isCategory
SkipItem(parentSkipped, isCategory) == parentSkipped \/ isCategory

\* the state of one run of the loop
LoopState(tasks, cats, lastSkipped) ==
    [selectedTasks |-> tasks, categoryIds |-> cats, lastSkippedParentId |-> lastSkipped]

InitialLoopState == LoopState(<<>>, <<>>, NIL)

\* a category branch that records the id only under a skipped parent (used to test claim C6)
AfterCategoryNested(item, isCategory, parentSkipped, cats, lastSkipped) ==
    IF isCategory /\ parentSkipped
    THEN [ categoryIds |-> Append(cats, item.id), lastSkippedParentId |-> item.id ]
    ELSE [ categoryIds |-> cats, lastSkippedParentId |-> lastSkipped ]

\* a category branch that never moves the skip id (used to test claim C18)
AfterCategoryNoCarry(item, isCategory, parentSkipped, cats, lastSkipped) ==
    IF isCategory
    THEN [ categoryIds |-> Append(cats, item.id), lastSkippedParentId |-> lastSkipped ]
    ELSE [ categoryIds |-> cats, lastSkippedParentId |-> lastSkipped ]

\* the last statement of the loop body: if (isCategory) { ... }
AfterCategory(item, isCategory, parentSkipped, cats, lastSkipped) ==
    IF isCategory
    THEN [ categoryIds |-> Append(cats, item.id),
           lastSkippedParentId |-> IF parentSkipped THEN item.id ELSE lastSkipped ]
    ELSE [ categoryIds |-> cats, lastSkippedParentId |-> lastSkipped ]

\* a loop that never ends the tracked skip (used to test claim C19)
SkipNeverReset(currParentId, lastSkipped) == lastSkipped

\* if (currParentId !== lastSkippedParentId) { lastSkippedParentId = NIL; }
SkipAfterReset(currParentId, lastSkipped) ==
    IF currParentId # lastSkipped THEN NIL ELSE lastSkipped

\* one iteration of the for-of loop on `item`
LoopBody(st, item, sectionsNameById) ==
    IF ~SectionKnown(item.section_id, sectionsNameById)
    THEN st
    ELSE IF RE_IGNORE_ITEM(item.content)
    THEN LoopState(st.selectedTasks, st.categoryIds, item.id)
    ELSE
      LET isCategory    == RE_CATEGORY_ITEM(item.content)
          parentSkipped == ParentSkipped(item.parent_id, st.lastSkippedParentId)
          skipItem      == SkipItem(parentSkipped, isCategory)
          tasks         == IF ~skipItem
                           THEN Append(st.selectedTasks, formatItem(item))
                           ELSE st.selectedTasks
          reset         == SkipAfterReset(item.parent_id, st.lastSkippedParentId)
          cat           == AfterCategory(item, isCategory, parentSkipped,
                                         st.categoryIds, reset)
      IN  LoopState(tasks, cat.categoryIds, cat.lastSkippedParentId)

RECURSIVE LoopFrom(_, _, _, _)
LoopFrom(st, list, k, sectionsNameById) ==
    IF k > Len(list) THEN st
    ELSE LoopFrom(LoopBody(st, list[k], sectionsNameById), list, k + 1, sectionsNameById)

\* the value formatProjectItems(items, sectionsNameById) returns
formatProjectItems(list, arg) ==
    LET st == LoopFrom(InitialLoopState, list, 1, SectionsNameById(arg))
    IN  <<st.selectedTasks, st.categoryIds>>

----------------------------------------------------------------------------
(* Inputs of the filter *)

\* "2020-03-15T10:00:00Z"
DATE_ADDED ==
    << "2", "0", "2", "0", "-", "0", "3", "-", "1", "5", "T", "1", "0", ":", "0", "0", ":",
       "0", "0", "Z" >>

\* priorities run over 1, 2, 3, 4
PriorityAt(k) == 1 + (k % 4)

Contents == { <<"t">>, <<"t", ":">>, <<"t", HEAVY_X>>, <<"t", HEAVY_X, ":">> }

SectionIds == {Null, SECTION_A}

SectionArgs ==
    { <<>>,
      <<DefaultSectionsNameById>>,
      <<(Null :> ROOT_SECTION) @@ (SECTION_A :> "A")>> }

\* The k-th item of a list: ids are distinct (the position in the list) and a
\* parent precedes its children, as the sync API delivers them.
ItemsAt(k) ==
    [ id         : {k},
      parent_id  : {Null} \cup (1 .. (k - 1)),
      section_id : SectionIds,
      content    : Contents,
      checked    : {0},
      date_added : {DATE_ADDED},
      priority   : {PriorityAt(k)} ]

RECURSIVE ItemLists(_)
ItemLists(n) ==
    IF n = 0 THEN { <<>> }
    ELSE { Append(list, item) : list \in ItemLists(n - 1), item \in ItemsAt(n) }

----------------------------------------------------------------------------
(* The filter as a state machine: one step per iteration of the loop *)

\* spec.md, section 8: [A(parent=root), B(parent=A, marked-ignore), C(parent=B), D(parent=root)]
ExampleItem(id, parent, content) ==
    [ id |-> id, parent_id |-> parent, section_id |-> Null, content |-> content,
      checked |-> 0, date_added |-> DATE_ADDED, priority |-> PriorityAt(id) ]

ExampleItems ==
    << ExampleItem(1, Null, <<"t">>), ExampleItem(2, 1, <<"t", HEAVY_X>>),
       ExampleItem(3, 2, <<"t">>), ExampleItem(4, Null, <<"t">>) >>

NotCalled == [status |-> "notcalled", value |-> <<>>, reason |-> <<>>]

InitFilter ==
    /\ \/ \E n \in 0 .. MaxLen : items \in ItemLists(n)
       \/ items = ExampleItems
    /\ parentIdsArg = <<>>
    /\ queries = <<>>
    /\ whenAll = NotCalled
    /\ called = <<>>
    /\ returned = <<>>
    /\ sectionsArg \in SectionArgs
    /\ pos = 1
    /\ selectedTasks = <<>>
    /\ categoryIds = <<>>
    /\ lastSkippedParentId = NIL

ForOf ==
    /\ pos <= Len(items)
    /\ LET st == LoopBody(LoopState(selectedTasks, categoryIds, lastSkippedParentId),
                          items[pos], SectionsNameById(sectionsArg))
       IN  /\ selectedTasks' = st.selectedTasks
           /\ categoryIds' = st.categoryIds
           /\ lastSkippedParentId' = st.lastSkippedParentId
    /\ pos' = pos + 1
    /\ UNCHANGED <<items, sectionsArg, archiveVars, callVars>>

NextFilter == ForOf

Spec == InitFilter /\ [][NextFilter]_vars

----------------------------------------------------------------------------
(* Todoist._getArchivedProjectItems: one query of the archive endpoint *)

\* const params = { [paramKey]: paramValue }
FirstParams(paramKey, paramValue) ==
    [key |-> paramKey, value |-> paramValue, cursor |-> "absent"]

\* params that keep the cursor they have (used to test claim C17)
WithCursorKept(params, data) ==
    IF params.cursor = "absent" THEN [params EXCEPT !.cursor = data.next_cursor] ELSE params

\* Object.assign(params, { cursor: data.next_cursor })
WithCursor(params, data) == [params EXCEPT !.cursor = data.next_cursor]

\* a merge that puts the new page first (used to test claim C9)
MergeNewPageFirst(data, nextData) ==
    [ items       |-> nextData.items \o data.items,
      has_more    |-> IF nextData.has_more = "absent" THEN data.has_more
                      ELSE nextData.has_more,
      next_cursor |-> nextData.next_cursor ]

\* nextData.items = data.items.concat(nextData.items);
\* data.next_cursor = nextData.next_cursor; Object.assign(data, nextData)
\* (a property the page does not carry keeps the value data had)
MergePage(data, nextData) ==
    [ items       |-> data.items \o nextData.items,
      has_more    |-> IF nextData.has_more = "absent" THEN data.has_more
                      ELSE nextData.has_more,
      next_cursor |-> nextData.next_cursor ]

\* while (data.has_more)
HasMore(data) == data.has_more = "true"

\* the call up to its first await: the first page is requested
StartQuery(paramKey, paramValue) ==
    [ paramKey   |-> paramKey,
      paramValue |-> paramValue,
      status     |-> "pending",
      params     |-> FirstParams(paramKey, paramValue),
      sent       |-> << FirstParams(paramKey, paramValue) >>,
      received   |-> <<>>,
      data       |-> <<>>,
      tasks      |-> <<>>,
      reason     |-> <<>> ]

\* data after the awaited page arrived
DataAfter(query, page) ==
    IF Len(query.data) = 0 THEN page ELSE MergePage(query.data[1], page)

\* const getTasksFromResponseData = data => formatProjectItems(data.items, sectionsNameById)[0]
getTasksFromResponseData(data, arg) == formatProjectItems(data.items, arg)[1]

\* the query resumes with `page`: it either asks for the next page or returns,
\* and getTasks turns the returned data into Tasks
Resume(query, page, arg) ==
    LET data == DataAfter(query, page)
    IN  IF HasMore(data)
        THEN [ query EXCEPT !.received = Append(@, page),
                            !.data = << data >>,
                            !.params = WithCursor(@, data),
                            !.sent = Append(@, WithCursor(query.params, data)) ]
        ELSE [ query EXCEPT !.received = Append(@, page),
                            !.data = << data >>,
                            !.status = "fulfilled",
                            !.tasks = getTasksFromResponseData(data, arg) ]

\* the awaited post rejects: the query rejects with the reason of the post,
\* written as the request that failed
Fail(query) == [ query EXCEPT !.status = "rejected", !.reason = << query.params >> ]

----------------------------------------------------------------------------
(* Todoist.getProjectArchivedTasks *)

PROJECT_ID == 100

SECTION_B == 8

PARENT_ID == 1

RECURSIVE Ascending(_)
Ascending(S) ==
    IF S = {} THEN <<>>
    ELSE LET m == CHOOSE x \in S : \A y \in S : x <= y
         IN  << m >> \o Ascending(S \ {m})

\* section ids that keep the sentinel key (used to test claim C10)
SectionsIdsWithRoot(sectionsNameById) == Ascending(DOMAIN sectionsNameById)

\* const {null: _, ...projectSectionsNameById} = sectionsNameById;
\* Object.keys(projectSectionsNameById).map(Number): integer keys come in ascending order
SectionsIds(sectionsNameById) == Ascending(DOMAIN sectionsNameById \ {Null})

\* if (parentIds && parentIds.length)
SuppliedParentIds(arg) == IF Len(arg) = 0 THEN <<>> ELSE arg[1]

\* whenAllKindTasks: the project query, the section queries, the ancestor queries
WhenAllKindTasks(sectionsNameById, parentIds) ==
    << StartQuery("project_id", PROJECT_ID) >>
    \o [ k \in 1 .. Len(SectionsIds(sectionsNameById)) |->
            StartQuery("section_id", SectionsIds(sectionsNameById)[k]) ]
    \o [ k \in 1 .. Len(SuppliedParentIds(parentIds)) |->
            StartQuery("parent_id", SuppliedParentIds(parentIds)[k]) ]

RECURSIVE Flat(_)
Flat(lists) == IF Len(lists) = 0 THEN <<>> ELSE Head(lists) \o Flat(Tail(lists))

RECURSIVE DropRepeatedIds(_, _)
DropRepeatedIds(tasks, seen) ==
    IF Len(tasks) = 0 THEN <<>>
    ELSE IF Head(tasks).id \in seen THEN DropRepeatedIds(Tail(tasks), seen)
    ELSE << Head(tasks) >> \o DropRepeatedIds(Tail(tasks), seen \cup {Head(tasks).id})

\* a flattening that keeps one Task per id (used to test claim C7)
FulfilledUniqueById(qs) ==
    DropRepeatedIds(Flat([ k \in 1 .. Len(qs) |-> qs[k].tasks ]), {})

\* fulfilledPromises => fulfilledPromises.flat()
Fulfilled(qs) == Flat([ k \in 1 .. Len(qs) |-> qs[k].tasks ])

Pending == [status |-> "pending", value |-> <<>>, reason |-> <<>>]

\* a combinator that waits for every query and ignores rejections (used to test claim C8)
PromiseAllSettled(promise, qs) ==
    IF promise.status # "pending" THEN promise
    ELSE IF \A k \in 1 .. Len(qs) : qs[k].status = "fulfilled"
    THEN [status |-> "fulfilled", value |-> Fulfilled(qs), reason |-> <<>>]
    ELSE promise

\* Promise.all(whenAllKindTasks).then(...): settled once; rejects with the first
\* rejection, fulfils when every query has fulfilled
PromiseAll(promise, qs) ==
    IF promise.status # "pending" THEN promise
    ELSE IF \E k \in 1 .. Len(qs) : qs[k].status = "rejected"
    THEN [ status |-> "rejected", value |-> <<>>,
           reason |-> qs[CHOOSE k \in 1 .. Len(qs) : qs[k].status = "rejected"].reason ]
    ELSE IF \A k \in 1 .. Len(qs) : qs[k].status = "fulfilled"
    THEN [status |-> "fulfilled", value |-> Fulfilled(qs), reason |-> <<>>]
    ELSE promise

----------------------------------------------------------------------------
(* The archive endpoint and the calls of the aggregation *)

ArchiveItem(id, parent, section, content) ==
    [ id |-> id, parent_id |-> parent, section_id |-> section, content |-> content,
      checked |-> 1, date_added |-> DATE_ADDED, priority |-> PriorityAt(id) ]

\* an ignore-marked item, a child of it, and an item of section A
ArchivedItems ==
    << ArchiveItem(1, Null, Null, <<"t", HEAVY_X>>),
       ArchiveItem(2, 1, Null, <<"t">>),
       ArchiveItem(3, Null, SECTION_A, <<"t">>) >>

\* a page carries one of the archived items
PageItems == { << ArchivedItems[k] >> : k \in 1 .. Len(ArchivedItems) }

\* the pages of a well-behaved endpoint: has_more is always there, and a cursor with it
ArchivePages ==
    { [items |-> i, has_more |-> "true", next_cursor |-> "c1"] : i \in PageItems }
    \cup { [items |-> i, has_more |-> "false", next_cursor |-> "undefined"] : i \in PageItems }

\* the pages of any endpoint: each property may be missing
AnyPages ==
    [ items       : PageItems,
      has_more    : { "true", "false", "absent" },
      next_cursor : { "c1", "c2", "undefined" } ]

ArchiveSectionArgs ==
    { <<>>,
      << DefaultSectionsNameById >>,
      << (Null :> ROOT_SECTION) @@ (SECTION_A :> "A") >>,
      << (Null :> ROOT_SECTION) @@ (SECTION_A :> "A") @@ (SECTION_B :> "B") >> }

ParentIdsArgs == { <<>>, << <<>> >>, << << PARENT_ID >> >> }

\* the responses so far after which a query fetched again
MoreSoFar ==
    LET RECURSIVE Sum(_)
        Sum(k) == IF k = 0 THEN 0 ELSE (Len(queries[k].sent) - 1) + Sum(k - 1)
    IN  Sum(Len(queries))

InitArchive ==
    /\ sectionsArg \in ArchiveSectionArgs
    /\ parentIdsArg \in ParentIdsArgs
    /\ queries = <<>>
    /\ whenAll = NotCalled
    /\ called = <<>>
    /\ returned = <<>>
    /\ items = <<>>
    /\ pos = 1
    /\ selectedTasks = <<>>
    /\ categoryIds = <<>>
    /\ lastSkippedParentId = NIL

\* getProjectArchivedTasks(projectId, sectionsNameById, parentIds) up to its return:
\* destructuring an absent sectionsNameById throws before any query starts
GetProjectArchivedTasks ==
    /\ whenAll.status = "notcalled"
    /\ IF Len(sectionsArg) = 0
       THEN /\ whenAll' = [status |-> "threw", value |-> <<>>, reason |-> <<>>]
            /\ queries' = <<>>
       ELSE /\ whenAll' = Pending
            /\ queries' = WhenAllKindTasks(sectionsArg[1], parentIdsArg)
    /\ UNCHANGED <<sectionsArg, parentIdsArg, filterVars, callVars>>

\* the endpoint answers the outstanding request of query q with a page
PageArrives(q, page) ==
    /\ queries[q].status = "pending"
    /\ HasMore(DataAfter(queries[q], page)) => MoreSoFar < MaxMore
    /\ queries' = [queries EXCEPT ![q] = Resume(@, page, sectionsArg)]
    /\ whenAll' = PromiseAll(whenAll, queries')
    /\ UNCHANGED <<sectionsArg, parentIdsArg, filterVars, callVars>>

\* the outstanding request of query q is rejected
FetchRejected(q) ==
    /\ queries[q].status = "pending"
    /\ queries' = [queries EXCEPT ![q] = Fail(@)]
    /\ whenAll' = PromiseAll(whenAll, queries')
    /\ UNCHANGED <<sectionsArg, parentIdsArg, filterVars, callVars>>

NextArchive ==
    \/ GetProjectArchivedTasks
    \/ \E q \in 1 .. Len(queries) : \E page \in ArchivePages : PageArrives(q, page)
    \/ \E q \in 1 .. Len(queries) : FetchRejected(q)

\* the aggregation of a project with up to two sections and one ancestor id,
\* against a well-behaved endpoint
SpecArchive == InitArchive /\ [][NextArchive]_vars

InitQuery ==
    /\ InitArchive
    /\ sectionsArg = << DefaultSectionsNameById >>
    /\ parentIdsArg = <<>>

NextQuery ==
    \/ GetProjectArchivedTasks
    \/ \E q \in 1 .. Len(queries) : \E page \in AnyPages : PageArrives(q, page)
    \/ \E q \in 1 .. Len(queries) : FetchRejected(q)

\* the single query of a project without sections, against any endpoint
SpecQuery == InitQuery /\ [][NextQuery]_vars

----------------------------------------------------------------------------
(* Vocabulary of the filter's properties *)

Seen == 1 .. (pos - 1)

Returned == pos > Len(items)

TaskIds == { selectedTasks[j].id : j \in 1 .. Len(selectedTasks) }

CategoryIdSet == { categoryIds[j] : j \in 1 .. Len(categoryIds) }

IdsOf(tasks) == { tasks[j].id : j \in 1 .. Len(tasks) }

UniqueIds(list) == \A a, b \in 1 .. Len(list) : list[a].id = list[b].id => a = b

GoverningMap == SectionsNameById(sectionsArg)

InKnownSection(item) == item.section_id \in DOMAIN GoverningMap

IgnoreMarked(item) == RE_IGNORE_ITEM(item.content)

EndsInColon(item) == RE_CATEGORY_ITEM(item.content)

Plain(item) == ~IgnoreMarked(item) /\ ~EndsInColon(item)

\* the item with a given id (ids are positions)
RECURSIVE InIgnoredSubtree(_)
InIgnoredSubtree(id) ==
    /\ id # Null
    /\ \/ IgnoreMarked(items[id])
       \/ InIgnoredSubtree(items[id].parent_id)

ParentsPrecede ==
    \A k \in 1 .. Len(items) :
        items[k].parent_id = Null \/ \E a \in 1 .. (k - 1) : items[a].id = items[k].parent_id

----------------------------------------------------------------------------
(* C1: in a list where parents precede their descendants, no Task is       *)
(* emitted for an ignore-marked item nor for any item below it, at any     *)
(* depth of the parent_id links. Stated for the lists whose items are all  *)
(* in known sections, where every ignore marker is seen by the loop.       *)
C1_IgnoredSubtreeDropped ==
    (ParentsPrecede /\ \A k \in 1 .. Len(items) : InKnownSection(items[k])) =>
        \A k \in Seen : InIgnoredSubtree(items[k].id) => items[k].id \notin TaskIds

(* C2: an ignore-marked item B of a known section, then a contiguous run   *)
(* of plain children of B, then a plain known-section item that is no      *)
(* child of B: B and the run give no Task, the item after the run gives    *)
(* one, and the Tasks of the items before B are those the items before B   *)
(* give on their own. The example list [A, B ignored under A, C under B,   *)
(* D] gives exactly the Tasks of A and D and no category id.               *)
RunAfterIgnored(b, e) ==
    /\ b < e
    /\ IgnoreMarked(items[b]) /\ InKnownSection(items[b])
    /\ \A k \in (b + 1) .. (e - 1) :
          Plain(items[k]) /\ items[k].parent_id = items[b].id
    /\ Plain(items[e]) /\ InKnownSection(items[e])
    /\ items[e].parent_id # items[b].id

TasksBefore(b) == formatProjectItems(SubSeq(items, 1, b - 1), sectionsArg)[1]

C3_TasksOnlyFromKnownSections ==
    Len(sectionsArg) = 1 =>
        /\ \A j \in 1 .. Len(selectedTasks) :
              selectedTasks[j].sectionId \in DOMAIN sectionsArg[1]
        /\ \A k \in Seen :
              items[k].section_id \notin DOMAIN sectionsArg[1] => items[k].id \notin TaskIds

C3_Witness ==
    /\ Len(sectionsArg) = 1
    /\ pos > 1
    /\ items[pos - 1].section_id \notin DOMAIN sectionsArg[1]
    /\ Plain(items[pos - 1])
    /\ items[pos - 1].parent_id # lastSkippedParentId
    /\ items[pos - 1].id \notin TaskIds

(* C4 as stated: called without a SectionMap, no item is dropped because   *)
(* of its section_id. An unmarked item whose parent is the root is never   *)
(* skipped for its marker or its parent (the skip id is NIL or an item's   *)
(* id), so it would always give a Task.                                    *)
C4_NoMapNothingDroppedBySection ==
    Len(sectionsArg) = 0 =>
        \A k \in Seen :
            (Plain(items[k]) /\ items[k].parent_id = Null) => items[k].id \in TaskIds

(* C4 as amended: called without a SectionMap, the default map with the    *)
(* single key null governs: an item passes the membership check exactly    *)
(* when its section_id is null.                                            *)
C4_NoMapMeansRootOnly ==
    Len(sectionsArg) = 0 =>
        /\ \A j \in 1 .. Len(selectedTasks) : selectedTasks[j].sectionId = Null
        /\ \A k \in Seen :
              /\ items[k].section_id # Null =>
                    items[k].id \notin TaskIds /\ items[k].id \notin CategoryIdSet
              /\ (items[k].section_id = Null /\ Plain(items[k]) /\ items[k].parent_id = Null)
                    => items[k].id \in TaskIds

C4_Witness ==
    /\ Len(sectionsArg) = 0
    /\ Returned
    /\ \E a, b \in Seen :
          /\ Plain(items[a]) /\ items[a].parent_id = Null /\ items[a].section_id # Null
          /\ Plain(items[b]) /\ items[b].parent_id = Null /\ items[b].section_id = Null
          /\ TaskIds = {items[b].id}

(* C5: in a list with unique ids, no id is both in categoryIds and the id  *)
(* of a Task.                                                              *)
C5_CategoriesDisjointFromTasks ==
    UniqueIds(items) => TaskIds \cap CategoryIdSet = {}

C5_Witness ==
    /\ Returned
    /\ UniqueIds(items)
    /\ TaskIds # {}
    /\ CategoryIdSet # {}

(* C6 as stated: every item whose content ends in ':' gives no Task and    *)
(* has its id in categoryIds.                                              *)
C6_EveryColonItemIsCategory ==
    \A k \in Seen :
        EndsInColon(items[k]) =>
            items[k].id \notin TaskIds /\ items[k].id \in CategoryIdSet

(* C6 as amended: in a list with unique ids, an item whose content ends in *)
(* ':' gives no Task; its id is in categoryIds exactly when the item is    *)
(* not ignore-marked and its section_id is a key of the governing map.     *)
C6_ColonItemIsCategoryUnlessDropped ==
    UniqueIds(items) =>
        \A k \in Seen :
            EndsInColon(items[k]) =>
                /\ items[k].id \notin TaskIds
                /\ items[k].id \in CategoryIdSet
                      <=> (~IgnoreMarked(items[k]) /\ InKnownSection(items[k]))

C6_Witness ==
    /\ Returned
    /\ \E a, b, c \in Seen :
          /\ EndsInColon(items[a]) /\ ~IgnoreMarked(items[a]) /\ InKnownSection(items[a])
          /\ EndsInColon(items[b]) /\ IgnoreMarked(items[b]) /\ InKnownSection(items[b])
          /\ EndsInColon(items[c]) /\ ~IgnoreMarked(items[c]) /\ ~InKnownSection(items[c])
          /\ CategoryIdSet = {items[a].id}

----------------------------------------------------------------------------
(* Vocabulary of the aggregation's properties *)

Called == whenAll.status \in {"pending", "fulfilled", "rejected"}

QueryIds == 1 .. Len(queries)

\* the items of the pages a query received, in the order it received them
ItemsOfPages(pages) == Flat([ k \in 1 .. Len(pages) |-> pages[k].items ])

\* the Tasks the filter gives, from a fresh loop state, for all a query received
TasksOfQuery(q) == formatProjectItems(ItemsOfPages(queries[q].received), sectionsArg)[1]

KeyRank(paramKey) ==
    CASE paramKey = "project_id" -> 1
      [] paramKey = "section_id" -> 2
      [] paramKey = "parent_id"  -> 3

\* pages 1..n-1 signal more data and page n signals none
EndsAtLastPage(pages) ==
    /\ Len(pages) >= 1
    /\ \A k \in 1 .. (Len(pages) - 1) : pages[k].has_more = "true"
    /\ pages[Len(pages)].has_more = "false"

(* C7: whatever the order in which the pages of the concurrent queries      *)
(* arrive, a fulfilled aggregation holds the Tasks of the project query,    *)
(* then of the section queries, then of the ancestor queries, each the      *)
(* filter's output (fresh skip state) over the query's own pages in page    *)
(* order; nothing is removed, so a Task two queries return is there twice.  *)
C7_FulfilledWithConcatenation ==
    whenAll.status = "fulfilled" =>
        /\ whenAll.value = Flat([ q \in QueryIds |-> TasksOfQuery(q) ])
        /\ \A a, b \in QueryIds :
              a < b => KeyRank(queries[a].paramKey) <= KeyRank(queries[b].paramKey)

C7_Witness ==
    /\ whenAll.status = "fulfilled"
    /\ Len(queries) >= 3
    /\ \E q \in QueryIds : Len(queries[q].received) >= 2
    /\ \E a, b \in 1 .. Len(whenAll.value) : a < b /\ whenAll.value[a] = whenAll.value[b]

(* C8: once a fetch of any query is rejected the aggregation is rejected,   *)
(* with the reason of a rejected fetch and no value, and it stays rejected  *)
(* with that first reason; it is fulfilled only when every query has        *)
(* fetched all its pages, and never holds a value before.                   *)
C8_RejectsOnAnyRejectedFetch ==
    /\ [](/\ (\E q \in QueryIds : queries[q].status = "rejected") =>
                /\ whenAll.status = "rejected"
                /\ \E q \in QueryIds :
                      queries[q].status = "rejected" /\ whenAll.reason = queries[q].reason
          /\ whenAll.status = "rejected" =>
                \E q \in QueryIds : queries[q].status = "rejected"
          /\ whenAll.status = "fulfilled" =>
                \A q \in QueryIds :
                    /\ queries[q].status = "fulfilled"
                    /\ ~HasMore(queries[q].received[Len(queries[q].received)])
          /\ whenAll.status # "fulfilled" => whenAll.value = <<>>)
    /\ [][whenAll.status \in {"rejected", "fulfilled"} => whenAll' = whenAll]_vars

C8_Witness ==
    /\ whenAll.status = "rejected"
    /\ \E q \in QueryIds : queries[q].status = "fulfilled" /\ queries[q].tasks # <<>>
    /\ \E q \in QueryIds : queries[q].status = "pending"
    /\ \E a, b \in QueryIds :
          /\ queries[a].status = "rejected" /\ queries[b].status = "rejected"
          /\ queries[a].reason # queries[b].reason

(* C9: a query answered by n pages, of which the first n-1 signal more     *)
(* data and the n-th signals none, has issued exactly n fetches and        *)
(* returns the items of page 1, then of page 2, ..., then of page n.       *)
C9_PagesConcatenatedInOrder ==
    \A q \in QueryIds :
        EndsAtLastPage(queries[q].received) =>
            /\ queries[q].status = "fulfilled"
            /\ Len(queries[q].sent) = Len(queries[q].received)
            /\ queries[q].data[1].items = ItemsOfPages(queries[q].received)

C9_Witness ==
    \E q \in QueryIds :
        /\ EndsAtLastPage(queries[q].received)
        /\ Len(queries[q].received) = 3
        /\ Len(queries[q].sent) = 3
        /\ queries[q].data[1].items = ArchivedItems

(* C10: a call with a SectionMap of s keys besides the sentinel and p      *)
(* supplied ancestor ids starts exactly 1 + s + p queries: the project     *)
(* query, then one section query per key besides the sentinel, then one    *)
(* ancestor query per supplied id; none is keyed by the sentinel.          *)
C10_OneQueryPerDimension ==
    Called =>
        LET sections == DOMAIN sectionsArg[1] \ {Null}
            s        == Cardinality(sections)
            parents  == IF Len(parentIdsArg) = 0 THEN <<>> ELSE parentIdsArg[1]
            p        == Len(parents)
        IN  /\ Len(queries) = 1 + s + p
            /\ queries[1].paramKey = "project_id" /\ queries[1].paramValue = PROJECT_ID
            /\ \A q \in 2 .. (1 + s) :
                  queries[q].paramKey = "section_id" /\ queries[q].paramValue \in sections
            /\ \A k \in sections :
                  Cardinality({ q \in QueryIds : queries[q].paramKey = "section_id"
                                                 /\ queries[q].paramValue = k }) = 1
            /\ \A k \in 1 .. p :
                  /\ queries[1 + s + k].paramKey = "parent_id"
                  /\ queries[1 + s + k].paramValue = parents[k]
            /\ \A q \in QueryIds :
                  /\ ~(queries[q].paramKey = "section_id" /\ queries[q].paramValue = Null)
                  /\ Len(queries[q].sent) >= 1
                  /\ queries[q].sent[1] =
                        [key |-> queries[q].paramKey, value |-> queries[q].paramValue,
                         cursor |-> "absent"]

C10_Witness ==
    /\ Called
    /\ Cardinality(DOMAIN sectionsArg[1] \ {Null}) = 2
    /\ Len(parentIdsArg) = 1 /\ Len(parentIdsArg[1]) = 1
    /\ Len(queries) = 4
    /\ \A q \in QueryIds : queries[q].status = "pending"


----------------------------------------------------------------------------
(* mapProjectDataToItems *)

\* an index that puts the checked Tasks first (used to test claim C11)
PairIndexCheckedFirst(task) == IF task.checked THEN 0 ELSE 1

\* +item.checked
PairIndex(task) == IF task.checked THEN 1 ELSE 0

\* the reduce of lines 111..116: the pair [[], []] after every Task was pushed
ItemsPair(tasks) ==
    [ index \in {0, 1} |-> SelectSeq(tasks, LAMBDA task : PairIndex(task) = index) ]

\* the value mapProjectDataToItems(data, sectionsNameById) returns; the second
\* argument is passed on as it was given
mapProjectDataToItems(data, sectionsNameByIdArg) ==
    LET formatted == formatProjectItems(data.items, sectionsNameByIdArg)
        pair      == ItemsPair(formatted[1])
    IN  << [ name  |-> data.project.name,
             items |-> [ done |-> pair[1], pending |-> pair[0] ] ],
           formatted[2] >>

\* the items of a project: checked or not, plain, category or ignore-marked,
\* at the top level or under the item before, in the root or in section A
DataItemsAt(k) ==
    [ id         : {k},
      parent_id  : IF k = 1 THEN {Null} ELSE {Null, k - 1},
      section_id : SectionIds,
      content    : { <<"t">>, <<"t", ":">>, <<"t", HEAVY_X>> },
      checked    : {0, 1},
      date_added : {DATE_ADDED},
      priority   : {PriorityAt(k)} ]

RECURSIVE DataItemLists(_)
DataItemLists(n) ==
    IF n = 0 THEN { <<>> }
    ELSE { Append(list, item) : list \in DataItemLists(n - 1), item \in DataItemsAt(n) }

PROJECT_NAME == "Reading"

InitMapper ==
    /\ \E n \in 0 .. MaxLen :
         called \in [ project : {[name |-> PROJECT_NAME]}, items : DataItemLists(n) ]
    /\ returned = <<>>
    /\ sectionsArg = << DefaultSectionsNameById >>
    /\ items = <<>>
    /\ pos = 1
    /\ selectedTasks = <<>>
    /\ categoryIds = <<>>
    /\ lastSkippedParentId = NIL
    /\ parentIdsArg = <<>>
    /\ queries = <<>>
    /\ whenAll = NotCalled

\* data => mapProjectDataToItems(data, sectionsNameById)
MapProjectDataToItems ==
    /\ returned = <<>>
    /\ returned' = << mapProjectDataToItems(called, sectionsArg) >>
    /\ UNCHANGED <<called, filterVars, sectionsArg, archiveVars>>

NextMapper == MapProjectDataToItems

SpecMapper == InitMapper /\ [][NextMapper]_vars

----------------------------------------------------------------------------
(* C11: the mapper puts every Task of the filter in exactly one list, the  *)
(* checked ones in `done` and the others in `pending`, each list in the    *)
(* order of the filter's output.                                           *)

Range(seq) == { seq[k] : k \in 1 .. Len(seq) }

\* seq holds, in the order of `whole` and without repeats, the elements of
\* `whole` that satisfy Test
HoldsInOrder(seq, whole, Test(_)) ==
    /\ Range(seq) = { x \in Range(whole) : Test(x) }
    /\ \A i, j \in 1 .. Len(seq) :
         i < j => \E m, n \in 1 .. Len(whole) : m < n /\ whole[m] = seq[i] /\ whole[n] = seq[j]

IdSeq(tasks) == [ k \in 1 .. Len(tasks) |-> tasks[k].id ]

MapperTasks == formatProjectItems(called.items, sectionsArg)[1]

C11_DoneAndPendingPartitionTasks ==
    returned # <<>> =>
        LET lists == returned[1][1].items
        IN  /\ HoldsInOrder(lists.done, MapperTasks, LAMBDA task : task.checked)
            /\ HoldsInOrder(lists.pending, MapperTasks, LAMBDA task : ~task.checked)
            /\ Len(lists.done) + Len(lists.pending) = Len(MapperTasks)

C11_Witness ==
    /\ returned # <<>>
    /\ IdSeq(returned[1][1].items.done) = <<1, 3>>
    /\ IdSeq(returned[1][1].items.pending) = <<2>>


----------------------------------------------------------------------------
(* formatDate called by formatItem on the dates of a calendar *)

Digits == << "0", "1", "2", "3", "4", "5", "6", "7", "8", "9" >>

TwoDigits(n) == << Digits[(n \div 10) + 1], Digits[(n % 10) + 1] >>

\* YYYY-MM-DD, alone or followed by a time of day
DateStrings ==
    { year \o <<"-">> \o TwoDigits(month) \o <<"-">> \o TwoDigits(day) \o time :
        year  \in { <<"1", "9", "9", "9">>, <<"2", "0", "2", "0">> },
        month \in 1 .. 12,
        day   \in {1, 9, 15, 28},
        time  \in { <<>>, <<"T", "1", "0", ":", "0", "0", ":", "0", "0", "Z">> } }

DatedItem(dateStr) ==
    [ id |-> 1, parent_id |-> Null, section_id |-> Null, content |-> <<"t">>,
      checked |-> 0, date_added |-> dateStr, priority |-> PriorityAt(1) ]

InitDate ==
    /\ called \in { << DatedItem(dateStr) >> : dateStr \in DateStrings }
    /\ returned = <<>>
    /\ sectionsArg = <<>>
    /\ items = <<>>
    /\ pos = 1
    /\ selectedTasks = <<>>
    /\ categoryIds = <<>>
    /\ lastSkippedParentId = NIL
    /\ parentIdsArg = <<>>
    /\ queries = <<>>
    /\ whenAll = NotCalled

\* formatProjectItems(items) on a list of one dated item
FormatDatedItem ==
    /\ returned = <<>>
    /\ returned' = << formatProjectItems(called, sectionsArg) >>
    /\ UNCHANGED <<called, filterVars, sectionsArg, archiveVars>>

NextDate == FormatDatedItem

SpecDate == InitDate /\ [][NextDate]_vars

----------------------------------------------------------------------------
(* C13 as stated: the dateAdded of the Task of an item added on YYYY-MM-DD *)
(* is the month, then the day of the month, then a comma, then the year of *)
(* four digits. Read loosely: it starts with the month, the day of the     *)
(* month comes before the comma and the year YYYY after it.                *)

StartsWith(str, prefix) ==
    Len(str) >= Len(prefix) /\ SubSeq(str, 1, Len(prefix)) = prefix

\* the day of the month as the pattern reads it, with or without its leading zero
DayOfMonth(dateStr) ==
    { SubSeq(dateStr, 9, 10) } \cup
    IF dateStr[9] = "0" THEN { SubSeq(dateStr, 10, 10) } ELSE {}

C13_DateAddedIsMonthDayYear ==
    returned # <<>> =>
        LET dateStr   == called[1].date_added
            dateAdded == returned[1][1][1].dateAdded
        IN  /\ StartsWith(dateAdded, SubSeq(dateStr, 6, 7))
            /\ EndsWith(dateAdded, <<",", " ">> \o SubSeq(dateStr, 1, 4))
            /\ \E day \in DayOfMonth(dateStr) :
                 EndsWith(dateAdded, day \o <<",", " ">> \o SubSeq(dateStr, 1, 4))


----------------------------------------------------------------------------
(* formatContent called on its own, and again on the text it returned *)

Alphabet == { "a", "M", " ", "(", ")", "[", "]", "{", "}", "-", "playlist", "YouTube" }

RECURSIVE StringsOfLen(_)
StringsOfLen(n) ==
    IF n = 0 THEN { <<>> }
    ELSE { Append(str, c) : str \in StringsOfLen(n - 1), c \in Alphabet }

\* "{Music} Song Title - YouTube"
EXAMPLE_TAGGED ==
    << "{", "M", "u", "s", "i", "c", "}", " ", "S", "o", "n", "g", " ",
       "T", "i", "t", "l", "e", " ", "-", " ", "YouTube" >>

\* "Doc (http://x)"
EXAMPLE_HYPERTEXT_1 ==
    << "D", "o", "c", " ", "(", "h", "t", "t", "p", ":", "/", "/", "x", ")" >>

\* "[Doc](http://x)"
EXAMPLE_HYPERTEXT_2 ==
    << "[", "D", "o", "c", "]", "(", "h", "t", "t", "p", ":", "/", "/", "x", ")" >>

InitContent ==
    /\ \/ \E n \in 0 .. MaxContent : called \in StringsOfLen(n)
       \/ called \in { EXAMPLE_TAGGED, EXAMPLE_HYPERTEXT_1, EXAMPLE_HYPERTEXT_2 }
    /\ returned = <<>>
    /\ sectionsArg = <<>>
    /\ items = <<>>
    /\ pos = 1
    /\ selectedTasks = <<>>
    /\ categoryIds = <<>>
    /\ lastSkippedParentId = NIL
    /\ parentIdsArg = <<>>
    /\ queries = <<>>
    /\ whenAll = NotCalled

\* formatContent(content)
FormatContent ==
    /\ returned = <<>>
    /\ returned' = << formatContent(called) >>
    /\ UNCHANGED <<called, filterVars, sectionsArg, archiveVars>>

\* formatContent(parsed.text), for a result that has a text
FormatContentAgain ==
    /\ Len(returned) = 1
    /\ returned[1].text # <<>>
    /\ returned' = Append(returned, formatContent(returned[1].text))
    /\ UNCHANGED <<called, filterVars, sectionsArg, archiveVars>>

NextContent == FormatContent \/ FormatContentAgain

SpecContent == InitContent /\ [][NextContent]_vars

----------------------------------------------------------------------------
(* C14 as stated: an untagged input `label (url)`, the label without       *)
(* parenthesis or whitespace, is parsed to the text `label` and the link   *)
(* `url`; "Doc (http://x)" gives the text "Doc" and the link "http://x".   *)

NoParenthesis(str) == \A k \in 1 .. Len(str) : str[k] \notin {"(", ")"}

NoSpace(str) == \A k \in 1 .. Len(str) : ~IsSpace(str[k])

\* the character "{" a tag starts with is not the first one
Untagged(str) == Len(str) > 0 /\ str[1] # "{"

\* str is `label (url)`
LabelUrl(str, label, url) ==
    /\ label # <<>> /\ NoParenthesis(label) /\ NoSpace(label)
    /\ url # <<>> /\ NoParenthesis(url) /\ NoSpace(url)
    /\ str = label \o <<" ", "(">> \o url \o <<")">>

Prefixes(str) == { SubSeq(str, 1, k) : k \in 0 .. Len(str) }

Infixes(str) == { SubSeq(str, j, k) : j \in 1 .. Len(str) + 1, k \in 0 .. Len(str) }

C14_LabelUrlGivesTextAndLink ==
    returned # <<>> =>
        /\ \A label \in Prefixes(called), url \in Infixes(called) :
             (Untagged(called) /\ LabelUrl(called, label, url)) =>
                 (returned[1].text = label /\ returned[1].link = url)
        /\ called = EXAMPLE_HYPERTEXT_1 =>
              /\ returned[1].text = <<"D", "o", "c">>
              /\ returned[1].link = <<"h", "t", "t", "p", ":", "/", "/", "x">>

----------------------------------------------------------------------------
(* C15 as stated: when the text t parsed from an input holds no standalone *)
(* word "playlist", parsing t again gives exactly the text t, no tag and   *)
(* no link.                                                                *)

\* "playlist" with no word character next to it
StandalonePlaylist(str) ==
    \E k \in 1 .. Len(str) :
        /\ str[k] = "playlist"
        /\ (k > 1 => ~IsWord(str[k - 1]))
        /\ (k < Len(str) => ~IsWord(str[k + 1]))

TextOnly(str) == [text |-> str, tag |-> <<>>, link |-> <<>>]

NoFormLeft(str) ==
    /\ MatchTag(str) = <<>>
    /\ MatchHypertext1(str) = <<>>
    /\ MatchHypertext2(str) = <<>>
    /\ YouTubeSuffixStart(str) = 0

----------------------------------------------------------------------------
(* getSectionsGroupedByProjectId, and the mapping and the aggregation run  *)
(* with the map it returns                                                 *)

\* String.prototype.trim
RECURSIVE Trim(_)
Trim(str) ==
    IF Len(str) > 0 /\ IsSpace(str[1]) THEN Trim(Tail(str))
    ELSE IF Len(str) > 0 /\ IsSpace(str[Len(str)]) THEN Trim(SubSeq(str, 1, Len(str) - 1))
    ELSE str

\* RE_IGNORE_SECTION = /✖$/
RE_IGNORE_SECTION(name) == EndsWith(name, << HEAVY_X >>)

\* a test of the name as it is, untrimmed (used to test claim C12)
SectionIgnoredUntrimmed(section) == RE_IGNORE_SECTION(section.name)

\* RE_IGNORE_SECTION.test(section.name.trim())
SectionIgnored(section) == RE_IGNORE_SECTION(Trim(section.name))

\* _getSections(projectId): the sections of the sync response, those of the
\* project when a project id is given
getSections(response, projectId) ==
    IF projectId # Null
    THEN SelectSeq(response, LAMBDA section : section.project_id = projectId)
    ELSE response

\* the reduce of lines 337..345 from the map sectionsMap on
RECURSIVE SectionsReduce(_, _)
SectionsReduce(sections, sectionsMap) ==
    IF sections = <<>> THEN sectionsMap
    ELSE LET section == Head(sections)
             rest    == [ id \in DOMAIN sectionsMap \ {section.id} |-> sectionsMap[id] ]
         IN  SectionsReduce(Tail(sections),
                 IF SectionIgnored(section) THEN sectionsMap
                 ELSE (section.id :> formatContent(section.name)) @@ rest)

\* the map getSectionsGroupedByProjectId(projectId) resolves to
getSectionsGroupedByProjectId(response, projectId) ==
    SectionsReduce(getSections(response, projectId), (Null :> ROOT_SECTION))

OTHER_PROJECT_ID == 200

\* plain, ignore-marked with a space after the glyph, and with a colon after it
SectionNames == { <<"a">>, <<"a", HEAVY_X, " ">>, <<"a", HEAVY_X, ":">> }

\* the sync response: section A and section B, each of this or another project
SectionsResponses ==
    { << a, b >> :
        a \in [ id : {SECTION_A}, project_id : {PROJECT_ID, OTHER_PROJECT_ID}, name : SectionNames ],
        b \in [ id : {SECTION_B}, project_id : {PROJECT_ID, OTHER_PROJECT_ID}, name : SectionNames ] }

\* the project's open items: one in the root, one in section A, one in section B
ProjectData ==
    [ project |-> [name |-> PROJECT_NAME],
      items   |-> << [ id |-> 1, parent_id |-> Null, section_id |-> Null, content |-> <<"t">>,
                       checked |-> 0, date_added |-> DATE_ADDED, priority |-> PriorityAt(1) ],
                     [ id |-> 2, parent_id |-> Null, section_id |-> SECTION_A, content |-> <<"t">>,
                       checked |-> 1, date_added |-> DATE_ADDED, priority |-> PriorityAt(2) ],
                     [ id |-> 3, parent_id |-> Null, section_id |-> SECTION_B, content |-> <<"t">>,
                       checked |-> 0, date_added |-> DATE_ADDED, priority |-> PriorityAt(3) ] >> ]

InitSections ==
    /\ called \in [ projectId : {PROJECT_ID}, response : SectionsResponses ]
    /\ returned = <<>>
    /\ sectionsArg = <<>>
    /\ parentIdsArg = <<>>
    /\ queries = <<>>
    /\ whenAll = NotCalled
    /\ items = <<>>
    /\ pos = 1
    /\ selectedTasks = <<>>
    /\ categoryIds = <<>>
    /\ lastSkippedParentId = NIL

\* getSectionsGroupedByProjectId(projectId); the map is what the later calls are given
GetSectionsGroupedByProjectId ==
    /\ returned = <<>>
    /\ returned' = << getSectionsGroupedByProjectId(called.response, called.projectId) >>
    /\ sectionsArg' = returned'
    /\ UNCHANGED <<called, filterVars, archiveVars>>

\* getWellFormattedProjectData(projectId, sectionsNameById)
GetWellFormattedProjectData ==
    /\ Len(returned) = 1
    /\ returned' = Append(returned, mapProjectDataToItems(ProjectData, sectionsArg))
    /\ UNCHANGED <<called, filterVars, sectionsArg, archiveVars>>

NextSections ==
    \/ GetSectionsGroupedByProjectId
    \/ GetWellFormattedProjectData
    \/ (returned # <<>> /\ NextArchive)

SpecSections == InitSections /\ [][NextSections]_vars

----------------------------------------------------------------------------
(* C12: the id of a section whose trimmed name ends in the ignore glyph is *)
(* no key of the map getSectionsGroupedByProjectId returns; with that map  *)
(* no item of that section becomes a Task of the project mapping or of the *)
(* archive aggregation, and no archive query is made for that section.     *)

\* the name ends in the glyph, spaces after it apart
TrimmedNameEndsInGlyph(name) ==
    \E k \in 1 .. Len(name) :
        /\ name[k] = HEAVY_X
        /\ \A j \in (k + 1) .. Len(name) : name[j] = " "

IgnoredSectionIds ==
    { called.response[k].id : k \in { j \in 1 .. Len(called.response) :
                                        TrimmedNameEndsInGlyph(called.response[j].name) } }

SectionIdsOf(tasks) == { tasks[k].sectionId : k \in 1 .. Len(tasks) }

C12_IgnoredSectionIsExcludedThroughout ==
    returned # <<>> =>
        \A id \in IgnoredSectionIds :
            /\ id \notin DOMAIN returned[1]
            /\ Len(returned) = 2 =>
                 id \notin SectionIdsOf(returned[2][1].items.done \o returned[2][1].items.pending)
            /\ whenAll.status = "fulfilled" => id \notin SectionIdsOf(whenAll.value)
            /\ \A q \in 1 .. Len(queries) :
                 ~(queries[q].paramKey = "section_id" /\ queries[q].paramValue = id)

\* section A is ignored, section B is not; the project was mapped, and the
\* aggregation, which was sent the archived item of section A, is fulfilled
C12_Witness ==
    /\ returned # <<>>
    /\ IgnoredSectionIds = {SECTION_A}
    /\ SECTION_B \in DOMAIN returned[1]
    /\ Len(returned) = 2
    /\ IdSeq(returned[2][1].items.pending) = <<1, 3>>
    /\ whenAll.status = "fulfilled"
    /\ \E q \in 1 .. Len(queries) :
         \E k \in 1 .. Len(queries[q].received) :
             queries[q].received[k].items[1].section_id = SECTION_A


----------------------------------------------------------------------------
(* C16 as stated: a query fetches on exactly while the page fetched last   *)
(* signals more data; once a page arrives whose has_more is false or       *)
(* missing, the query makes no further fetch and completes.                *)

LastPage(q) == queries[q].received[Len(queries[q].received)]

C16_StopsAtPageWithoutMoreSignal ==
    \A q \in QueryIds :
        Len(queries[q].received) >= 1 =>
            IF LastPage(q).has_more = "true"
            THEN /\ queries[q].status # "fulfilled"
                 /\ Len(queries[q].sent) = Len(queries[q].received) + 1
            ELSE /\ queries[q].status = "fulfilled"
                 /\ Len(queries[q].sent) = Len(queries[q].received)

----------------------------------------------------------------------------
(* two concurrent queries against any endpoint *)

\* the pages of any endpoint, all with the same item
CursorPages ==
    [ items       : { << ArchivedItems[2] >> },
      has_more    : { "true", "false", "absent" },
      next_cursor : { "c1", "c2", "undefined" } ]

InitCursors ==
    /\ InitArchive
    /\ sectionsArg = << (Null :> ROOT_SECTION) @@ (SECTION_A :> "A") >>
    /\ parentIdsArg = <<>>

NextCursors ==
    \/ GetProjectArchivedTasks
    \/ \E q \in 1 .. Len(queries) : \E page \in CursorPages : PageArrives(q, page)
    \/ \E q \in 1 .. Len(queries) : FetchRejected(q)

\* the project query and one section query, against any endpoint
SpecCursors == InitCursors /\ [][NextCursors]_vars

(* C17: the first request of a query carries its key and value and no      *)
(* cursor; every later request is made after the response to the one       *)
(* before, with the same key and value and the next_cursor of that         *)
(* response as cursor; a query has at most one request without a response, *)
(* whatever the other queries do.                                          *)
C17_RequestsFollowTheCursor ==
    \A q \in QueryIds :
        LET sent     == queries[q].sent
            received == queries[q].received
        IN  /\ Len(sent) >= 1
            /\ sent[1] = [ key |-> queries[q].paramKey, value |-> queries[q].paramValue,
                           cursor |-> "absent" ]
            /\ Len(received) <= Len(sent) /\ Len(sent) <= Len(received) + 1
            /\ \A k \in 2 .. Len(sent) :
                 /\ sent[k].key = queries[q].paramKey
                 /\ sent[k].value = queries[q].paramValue
                 /\ sent[k].cursor = received[k - 1].next_cursor

\* one query has made three requests, the cursors c1 and c2 in turn, while
\* the other query still waits for its first page
C17_Witness ==
    \E a, b \in QueryIds :
        /\ a # b
        /\ Len(queries[a].sent) = 3
        /\ queries[a].sent[2].cursor = "c1"
        /\ queries[a].sent[3].cursor = "c2"
        /\ queries[b].status = "pending"
        /\ Len(queries[b].sent) = 1 /\ Len(queries[b].received) = 0


----------------------------------------------------------------------------
(* The skip id the loop holds when it comes to the k-th item *)

SkipBefore(k) ==
    LoopFrom(InitialLoopState, SubSeq(items, 1, k - 1), 1, GoverningMap).lastSkippedParentId

\* the item the loop processed last
Last == items[pos - 1]

(* C18: a category marker (ends in ":", not ignore-marked, known section)  *)
(* processed while its parent_id is the skip id: after the step the skip   *)
(* id is the marker's id, the marker gives no Task, and the plain items    *)
(* that follow it at once with the marker as parent give no Task.          *)

CarriedMarker(m) ==
    /\ EndsInColon(items[m]) /\ ~IgnoreMarked(items[m]) /\ InKnownSection(items[m])
    /\ items[m].parent_id = SkipBefore(m)

C18_CategoryUnderSkippedParentCarriesSkip ==
    \A m \in Seen :
        CarriedMarker(m) =>
            /\ items[m].id \notin TaskIds
            /\ m = pos - 1 => lastSkippedParentId = items[m].id
            /\ \A e \in Seen :
                 (/\ e > m
                  /\ \A k \in (m + 1) .. e :
                        Plain(items[k]) /\ items[k].parent_id = items[m].id)
                 => items[e].id \notin TaskIds

\* an ignore-marked item, a category marker under it, a plain item under the marker
C18_Witness ==
    /\ Returned
    /\ Len(items) = 3
    /\ IgnoreMarked(items[1]) /\ InKnownSection(items[1])
    /\ CarriedMarker(2)
    /\ Plain(items[3]) /\ InKnownSection(items[3]) /\ items[3].parent_id = items[2].id
    /\ selectedTasks = <<>>
    /\ categoryIds = << items[2].id >>

----------------------------------------------------------------------------
(* C19 as stated: after any item whose parent_id differs from the skip id  *)
(* the loop held when it came to it, the skip id is "none", or the item's  *)
(* id when the item is ignore-marked.                                      *)

SkipIdAsClaimed(item) == IF IgnoreMarked(item) THEN item.id ELSE NIL

C19_SkipResetAfterAnyItem ==
    (pos > 1 /\ Last.parent_id # SkipBefore(pos - 1)) =>
        lastSkippedParentId = SkipIdAsClaimed(Last)

(* C19 as amended: the same for the items whose section_id is a key of the *)
(* governing map; an item of another section leaves the skip id as it was. *)
C19_SkipResetAfterKnownSectionItem ==
    pos > 1 =>
        /\ (InKnownSection(Last) /\ Last.parent_id # SkipBefore(pos - 1)) =>
              lastSkippedParentId = SkipIdAsClaimed(Last)
        /\ ~InKnownSection(Last) => lastSkippedParentId = SkipBefore(pos - 1)

\* a plain item of a known section that is no child of the ignored item
\* before it has ended the skip
C19_Witness ==
    /\ pos > 2
    /\ SkipBefore(pos - 1) = items[pos - 2].id
    /\ InKnownSection(Last) /\ Plain(Last)
    /\ Last.parent_id # SkipBefore(pos - 1)
    /\ lastSkippedParentId = NIL

----------------------------------------------------------------------------
(* C20: the Tasks are a subsequence of the input in the input's order:     *)
(* every Task carries the id, parent_id, section_id and priority of an     *)
(* item processed, no item gives two Tasks, and the Tasks follow the order *)
(* of their items; categoryIds holds ids of items processed, in the        *)
(* input's order, no item twice.                                           *)

\* the position of the item with a given id (ids are unique)
PosOf(id) == CHOOSE k \in 1 .. Len(items) : items[k].id = id

C20_TasksAreSubsequenceOfInput ==
    /\ \A j \in 1 .. Len(selectedTasks) :
         \E k \in Seen :
             /\ selectedTasks[j].id = items[k].id
             /\ selectedTasks[j].parentId = items[k].parent_id
             /\ selectedTasks[j].sectionId = items[k].section_id
             /\ selectedTasks[j].priority = items[k].priority
    /\ \A i, j \in 1 .. Len(selectedTasks) :
         i < j => PosOf(selectedTasks[i].id) < PosOf(selectedTasks[j].id)
    /\ \A j \in 1 .. Len(categoryIds) : \E k \in Seen : categoryIds[j] = items[k].id
    /\ \A i, j \in 1 .. Len(categoryIds) :
         i < j => PosOf(categoryIds[i]) < PosOf(categoryIds[j])

\* two Tasks of different priority, the item between them dropped
C20_Witness ==
    /\ Returned
    /\ Len(items) = 3
    /\ IdSeq(selectedTasks) = << items[1].id, items[3].id >>
    /\ selectedTasks[1].priority # selectedTasks[2].priority
    /\ selectedTasks[2].parentId = items[1].id
    /\ ~InKnownSection(items[2])

====
